---- MODULE Spec2Model ----
(***************************************************************************)
(* A model of tinyfabulist (src/temp.py): the --generate-fables dispatcher *)
(* of main with its worker threads (generate_fable_threaded), the          *)
(* streaming client generate_fable, and the prompt combinator              *)
(* generate_prompts.                                                       *)
(***************************************************************************)
EXTENDS Integers, Sequences, FiniteSets, TLC

(***************************************************************************)
(* Bounds of the model.                                                    *)
(***************************************************************************)
MaxModels == 2

MaxPrompts == 2

MaxThreads == 4

MaxFeatLen == 3

MaxSpace == 6

MaxCount == 3

MaxChunks == 3

MaxFables == 2

(***************************************************************************)
(* Values.  None is Python's None; strings are TLA+ strings, so that       *)
(* concatenation and prefixes are those of the text itself.                *)
(***************************************************************************)
\* An optional string: Python's None, or a string.
None == [is_none |-> TRUE, content |-> ""]

Some(s) == [is_none |-> FALSE, content |-> s]

ModelKeys == {"m1", "m2"}

\* the generator prompts of a prompt file, in file order
PromptText(i) == "Tell fable " \o ToString(i)

SystemPromptText == "You are a fabulist"

ErrorPrefix == "Error generating fable: "

IsPrefix(p, s) == Len(p) <= Len(s) /\ SubSeq(s, 1, Len(p)) = p

Range(s) == {s[i] : i \in DOMAIN s}

RECURSIVE SeqsUpTo(_, _)
SeqsUpTo(S, n) ==
    IF n = 0 THEN {<<>>}
    ELSE LET shorter == SeqsUpTo(S, n - 1)
         IN  shorter \cup {Append(s, x) : s \in {q \in shorter : Len(q) = n - 1}, x \in S}

VARIABLES
    mainpc,            \* where main is
    exit_code,         \* -1 while main runs, then 0 or 1
    hf_token_set,      \* whether config('HF_ACCESS_TOKEN') is defined
    available_models,  \* settings['llms']['hf-models']: key -> entry
    models_to_use,     \* the list of model keys iterated
    system_prompt,     \* None or a string
    fable_prompts,     \* the list of generator prompts
    mi,                \* index of the model of the dispatch loop (0: before the first)
    pi,                \* number of prompts dispatched for model mi
    ji,                \* number of threads joined
    threads,           \* the started threads, in start order: their arguments
    tpc,               \* each started thread's position
    fable,             \* each thread's local variable fable
    lock,              \* 0 when free, else the thread holding it
    all_fables,        \* the shared list
    wi,                \* number of records write_fables has written
    output,            \* the records written to stdout
    log,               \* the log lines, as a set of <<kind, who>>
    \* generate_prompts
    features,          \* config['generator']['features']: dimension -> list
    generator_template,\* the fable template, as its parts
    count,             \* the number of prompts asked for
    randomize,         \* the --randomize flag
    ppc,               \* where generate_prompts is
    prompts,           \* the rendered prompts
    used_combinations, \* the set of accepted tuples (randomized mode)
    combination,       \* the tuple of the current iteration
    accepted,          \* history: the tuple each prompt was rendered from
    \* generate_fable
    response,          \* what the endpoint does with this call
    cpc,               \* where generate_fable is
    ci,                \* number of chunks consumed
    fable_text,        \* the text accumulated
    returned,          \* the value returned
    \* the command line and the process's other inputs and outputs
    action,            \* the action flag given: which branch of main runs
    output_format,     \* args.output
    system_template,   \* config['generator']['prompt']['system'], compiled
    stdout,            \* the lines write_output has written
    openai_token_set,  \* whether config('OPENAI_TOKEN') is defined
    fables_to_evaluate,\* the parsed lines of the file given to --evaluate
    ei,                \* number of those lines main has gone through
    evaluations        \* the evaluations printed

dispatch_vars == <<mainpc, exit_code, hf_token_set, available_models, models_to_use,
                   system_prompt, fable_prompts, mi, pi, ji, threads, tpc, fable,
                   lock, all_fables, wi, output, log>>

combinator_vars == <<features, generator_template, count, randomize, ppc, prompts,
                     used_combinations, combination, accepted>>

client_vars == <<response, cpc, ci, fable_text, returned>>

run_vars == <<action, output_format, system_template, stdout, openai_token_set, fables_to_evaluate, ei,
              evaluations>>

vars == <<dispatch_vars, combinator_vars, client_vars, run_vars>>

(***************************************************************************)
(* Inputs of the dispatcher.                                               *)
(***************************************************************************)
\* How a model's endpoint answers a chat-completion request.
EndpointKinds == {"ok", "request_error", "stream_error"}

\* An entry of llms.hf-models: 'name' and 'base_url' may each be missing.
\* An entry without base_url is never called, so its endpoint is fixed.
ModelEntries ==
    {e \in [key : ModelKeys, has_name : BOOLEAN, has_base_url : BOOLEAN,
            endpoint : EndpointKinds] :
        ~e.has_base_url => e.endpoint = "ok"}

AvailableModelChoices ==
    UNION {{am \in [D -> ModelEntries] : \A k \in D : am[k].key = k} :
           D \in SUBSET ModelKeys}

\* list(available_models.keys()): the keys in the order of the settings file.
KeyLists(am) ==
    {s \in SeqsUpTo(DOMAIN am, Cardinality(DOMAIN am)) :
        Len(s) = Cardinality(DOMAIN am) /\ Range(s) = DOMAIN am}

\* args.models: None (<<>>) or the names given on the command line.
RequestedModels == SeqsUpTo(ModelKeys, MaxModels)

\* The parsed lines of the prompt file.
PromptLine(type, content) == [prompt_type |-> type, content |-> content]

PromptFiles ==
    {sys \o [i \in 1..k |-> PromptLine("generator_prompt", PromptText(i))] :
        sys \in {<<>>, <<PromptLine("system_prompt", SystemPromptText)>>},
        k \in 0..MaxPrompts}

ModelName(key) == IF key = "m1" THEN "llama-3.1-8b" ELSE "mistral-7b"

(***************************************************************************)
(* generate_fable: the streaming client.                                   *)
(***************************************************************************)
\* A chunk of the stream carries message.choices[0].delta.content.
Delta(text) == Some(text)

TokenMissingMsg == "HF_ACCESS_TOKEN not found"

RequestErrorMsg == "Connection error."

StreamErrorMsg == "peer closed connection"

\* What the endpoint does with one call: the request raises, or the stream
\* yields chunks and then ends or raises.
Response(kind, chunks) == [kind |-> kind, chunks |-> chunks]

\* mutant: the delta is put before the text
AddDeltaPrepended(text, chunk) ==
    IF ~chunk.is_none THEN chunk.content \o text ELSE text

\* lines 251-252: a chunk whose delta content is None adds nothing.
AddDelta(text, chunk) ==
    IF ~chunk.is_none THEN text \o chunk.content ELSE text

\* lines 249-252: the text accumulated over the chunks, in arrival order.
RECURSIVE Accumulate(_, _)
Accumulate(text, chunks) ==
    IF chunks = <<>> THEN text
    ELSE Accumulate(AddDelta(text, Head(chunks)), Tail(chunks))

\* mutant: the except clause raises again instead of returning
ErrorSentinelReraised(msg) == [raised |-> TRUE, text |-> ErrorPrefix \o msg]

\* lines 254-256: the except clause returns the sentinel string.
ErrorSentinel(msg) == [raised |-> FALSE, text |-> ErrorPrefix \o msg]

\* generate_fable as a whole: its result, and whether it raises outward.
GenerateFable(token_set, resp) ==
    IF ~token_set THEN ErrorSentinel(TokenMissingMsg)
    ELSE IF resp.kind = "request_error" THEN ErrorSentinel(RequestErrorMsg)
    ELSE IF resp.kind = "stream_error" THEN ErrorSentinel(StreamErrorMsg)
    ELSE [raised |-> FALSE, text |-> Accumulate("", resp.chunks)]

\* The response a model's endpoint gives in the dispatcher's runs.
EndpointResponse(kind) ==
    IF kind = "ok"
    THEN Response("ok", <<Delta("Once"), None, Delta(" upon"), Delta(" a time")>>)
    ELSE IF kind = "stream_error" THEN Response("stream_error", <<Delta("Once")>>)
    ELSE Response("request_error", <<>>)

(***************************************************************************)
(* The parts of the program a run does not enter stay as they are.         *)
(***************************************************************************)
IdleDispatch ==
    /\ mainpc = "idle"
    /\ exit_code = -1
    /\ available_models = << >>
    /\ models_to_use = <<>>
    /\ system_prompt = None
    /\ fable_prompts = <<>>
    /\ mi = 0
    /\ pi = 0
    /\ ji = 0
    /\ threads = <<>>
    /\ tpc = <<>>
    /\ fable = <<>>
    /\ lock = 0
    /\ all_fables = <<>>
    /\ wi = 0
    /\ output = <<>>
    /\ log = {}

IdleCombinator ==
    /\ features = << >>
    /\ generator_template = <<>>
    /\ count = 0
    /\ randomize = FALSE
    /\ ppc = "idle"
    /\ prompts = <<>>
    /\ used_combinations = {}
    /\ combination = <<>>
    /\ accepted = <<>>

IdleClient ==
    /\ response = [kind |-> "ok", chunks |-> <<>>]
    /\ cpc = "idle"
    /\ ci = 0
    /\ fable_text = ""
    /\ returned = None

IdleRun ==
    /\ action = "none"
    /\ output_format = "text"
    /\ system_template = <<>>
    /\ stdout = <<>>
    /\ openai_token_set = TRUE
    /\ fables_to_evaluate = <<>>
    /\ ei = 0
    /\ evaluations = <<>>

(***************************************************************************)
(* main, --generate-fables: configuration, then the dispatch loop.         *)
(***************************************************************************)
InitDispatch ==
    /\ mainpc = "load_settings"
    /\ exit_code = -1
    /\ hf_token_set \in BOOLEAN
    /\ available_models = << >>
    /\ models_to_use = <<>>
    /\ system_prompt = None
    /\ fable_prompts = <<>>
    /\ mi = 0
    /\ pi = 0
    /\ ji = 0
    /\ threads = <<>>
    /\ tpc = <<>>
    /\ fable = <<>>
    /\ lock = 0
    /\ all_fables = <<>>
    /\ wi = 0
    /\ output = <<>>
    /\ log = {}
    /\ IdleCombinator
    /\ IdleClient
    /\ IdleRun

\* mutant: the handlers log and leave with exit code 0
AbortExitsZero(kind) ==
    /\ mainpc' = "exit"
    /\ exit_code' = 0
    /\ log' = log \cup {<<kind, 0>>}

\* lines 459-464: both handlers log and call sys.exit(1).
Abort(kind) ==
    /\ mainpc' = "exit"
    /\ exit_code' = 1
    /\ log' = log \cup {<<kind, 0>>}

\* line 393, load_settings (lines 58-68).
LoadSettings ==
    /\ mainpc = "load_settings"
    /\ \/ /\ Abort("config_error")      \* file missing or invalid YAML
          /\ UNCHANGED available_models
       \/ /\ \E am \in AvailableModelChoices : available_models' = am
          /\ mainpc' = "check_available"
          /\ UNCHANGED <<exit_code, log>>
    /\ UNCHANGED <<run_vars, combinator_vars, client_vars, hf_token_set, models_to_use, system_prompt, fable_prompts, mi, pi,
                   ji, threads, tpc, fable, lock, all_fables, wi, output>>

\* lines 396-398.
CheckAvailable ==
    /\ mainpc = "check_available"
    /\ IF DOMAIN available_models = {}
       THEN Abort("config_error")
       ELSE mainpc' = "select_models" /\ UNCHANGED <<exit_code, log>>
    /\ UNCHANGED <<run_vars, combinator_vars, client_vars, hf_token_set, available_models, models_to_use, system_prompt,
                   fable_prompts, mi, pi, ji, threads, tpc, fable, lock, all_fables,
                   wi, output>>

\* lines 401-406.
SelectModels ==
    /\ mainpc = "select_models"
    /\ \E requested \in RequestedModels, keys \in KeyLists(available_models) :
          LET chosen == IF requested # <<>> THEN requested ELSE keys
              invalid_models == {k \in Range(chosen) : k \notin DOMAIN available_models}
          IN  IF invalid_models # {}
              THEN Abort("config_error") /\ UNCHANGED models_to_use
              ELSE /\ models_to_use' = chosen
                   /\ mainpc' = "read_prompts"
                   /\ UNCHANGED <<exit_code, log>>
    /\ UNCHANGED <<run_vars, combinator_vars, client_vars, hf_token_set, available_models, system_prompt, fable_prompts, mi,
                   pi, ji, threads, tpc, fable, lock, all_fables, wi, output>>

\* line 410: the first system_prompt line's content, or None.
FirstSystemPrompt(lines) ==
    LET at == {i \in DOMAIN lines : lines[i].prompt_type = "system_prompt"}
    IN  IF at = {} THEN None
        ELSE Some(lines[CHOOSE i \in at : \A j \in at : i <= j].content)

\* line 411: the generator_prompt lines' contents, in file order.
RECURSIVE GeneratorPrompts(_)
GeneratorPrompts(lines) ==
    IF lines = <<>> THEN <<>>
    ELSE IF Head(lines).prompt_type = "generator_prompt"
         THEN <<Head(lines).content>> \o GeneratorPrompts(Tail(lines))
         ELSE GeneratorPrompts(Tail(lines))

\* lines 409-414: read_prompts (lines 209-220), then the system prompt check.
ReadPrompts ==
    /\ mainpc = "read_prompts"
    /\ \/ /\ Abort("config_error")      \* file missing or invalid JSONL
          /\ UNCHANGED <<system_prompt, fable_prompts>>
       \/ \E lines \in PromptFiles :
            /\ Len(models_to_use) * Len(GeneratorPrompts(lines)) <= MaxThreads
            /\ IF FirstSystemPrompt(lines).is_none
                  \/ FirstSystemPrompt(lines).content = ""
               THEN Abort("config_error") /\ UNCHANGED <<system_prompt, fable_prompts>>
               ELSE /\ system_prompt' = FirstSystemPrompt(lines)
                    /\ fable_prompts' = GeneratorPrompts(lines)
                    /\ mainpc' = "dispatch"
                    /\ UNCHANGED <<exit_code, log>>
    /\ UNCHANGED <<run_vars, combinator_vars, client_vars, hf_token_set, available_models, models_to_use, mi, pi, ji, threads,
                   tpc, fable, lock, all_fables, wi, output>>

main_cfg_vars == <<hf_token_set, available_models, models_to_use, system_prompt,
                   fable_prompts>>

\* lines 421-423: the next model of the outer loop; model_config['name'] is
\* evaluated for the log line and raises KeyError when the entry has no name.
NextModel ==
    /\ mainpc = "dispatch"
    /\ mi < Len(models_to_use)
    /\ mi = 0 \/ pi = Len(fable_prompts)
    /\ IF available_models[models_to_use[mi + 1]].has_name
       THEN /\ mi' = mi + 1
            /\ pi' = 0
            /\ UNCHANGED <<mainpc, exit_code, log>>
       ELSE /\ Abort("unexpected_error")
            /\ UNCHANGED <<mi, pi>>
    /\ UNCHANGED <<run_vars, combinator_vars, client_vars, main_cfg_vars, ji, threads, tpc, fable, lock, all_fables, wi, output>>

\* lines 425-430: one thread per prompt, started at once.
StartThread ==
    /\ mainpc = "dispatch"
    /\ mi >= 1
    /\ pi < Len(fable_prompts)
    /\ threads' = Append(threads, [model_name |-> models_to_use[mi],
                                   prompt |-> fable_prompts[pi + 1]])
    /\ tpc' = Append(tpc, "generate")
    /\ fable' = Append(fable, "")
    /\ pi' = pi + 1
    /\ UNCHANGED <<run_vars, combinator_vars, client_vars, main_cfg_vars, mainpc, exit_code, mi, ji, lock, all_fables, wi,
                   output, log>>

\* The dispatch loops are over: on to the joins.
DispatchDone ==
    /\ mainpc = "dispatch"
    /\ mi = Len(models_to_use)
    /\ pi = Len(fable_prompts)
    /\ mainpc' = "join"
    /\ UNCHANGED <<run_vars, combinator_vars, client_vars, main_cfg_vars, exit_code, mi, pi, ji, threads, tpc, fable, lock,
                   all_fables, wi, output, log>>

\* mutant: join does not wait
JoinReturnsAtOnce(t) == TRUE

\* thread.join() returns once the thread has finished.
JoinReturns(t) == tpc[t] = "done"

\* lines 433-434: the threads are joined in start order.
Join ==
    /\ mainpc = "join"
    /\ ji < Len(threads)
    /\ JoinReturns(ji + 1)
    /\ ji' = ji + 1
    /\ UNCHANGED <<run_vars, combinator_vars, client_vars, main_cfg_vars, mainpc, exit_code, mi, pi, threads, tpc, fable, lock,
                   all_fables, wi, output, log>>

\* line 436: write_fables is entered with the shared list.
EnterWrite ==
    /\ mainpc = "join"
    /\ ji = Len(threads)
    /\ mainpc' = "write"
    /\ wi' = 0
    /\ UNCHANGED <<run_vars, combinator_vars, client_vars, main_cfg_vars, exit_code, mi, pi, ji, threads, tpc, fable, lock,
                   all_fables, output, log>>

\* lines 265-281: write_fables writes the records in list order.
WriteRecord ==
    /\ mainpc = "write"
    /\ wi < Len(all_fables)
    /\ output' = Append(output, all_fables[wi + 1])
    /\ wi' = wi + 1
    /\ UNCHANGED <<run_vars, combinator_vars, client_vars, main_cfg_vars, mainpc, exit_code, mi, pi, ji, threads, tpc, fable,
                   lock, all_fables, log>>

\* lines 438-440, then main returns: the process exits 0.
Finish ==
    /\ mainpc = "write"
    /\ wi >= Len(all_fables)
    /\ mainpc' = "done"
    /\ exit_code' = 0
    /\ log' = log \cup {<<"completed", 0>>}
    /\ UNCHANGED <<run_vars, combinator_vars, client_vars, main_cfg_vars, mi, pi, ji, threads, tpc, fable, lock, all_fables,
                   wi, output>>

(***************************************************************************)
(* generate_fable_threaded: a worker thread.                               *)
(***************************************************************************)
ModelConfig(t) == available_models[threads[t].model_name]

\* lines 325-329: model_config['base_url'] is evaluated (KeyError without it),
\* then generate_fable is called; any exception goes to line 337.
Generate(t) ==
    /\ tpc[t] = "generate"
    /\ LET result == GenerateFable(hf_token_set,
                                   EndpointResponse(ModelConfig(t).endpoint))
       IN  IF ~ModelConfig(t).has_base_url \/ result.raised
           THEN /\ tpc' = [tpc EXCEPT ![t] = "done"]
                /\ log' = log \cup {<<"thread_error", t>>}
                /\ UNCHANGED fable
           ELSE /\ tpc' = [tpc EXCEPT ![t] = "acquire"]
                /\ fable' = [fable EXCEPT ![t] = result.text]
                /\ log' = IF IsPrefix(ErrorPrefix, result.text)
                          THEN log \cup {<<"api_error", t>>} ELSE log
    /\ UNCHANGED <<run_vars, combinator_vars, client_vars, main_cfg_vars, mainpc, exit_code, mi, pi, ji, threads, lock,
                   all_fables, wi, output>>

\* mutant: the lock excludes nobody
LockAlwaysFree == TRUE

\* threading.Lock: acquire succeeds only when no thread holds the lock.
LockFree == lock = 0

\* line 330: with lock (acquire).
Acquire(t) ==
    /\ tpc[t] = "acquire"
    /\ LockFree
    /\ lock' = t
    /\ tpc' = [tpc EXCEPT ![t] = "append"]
    /\ UNCHANGED <<run_vars, combinator_vars, client_vars, main_cfg_vars, mainpc, exit_code, mi, pi, ji, threads, fable,
                   all_fables, wi, output, log>>

\* mutant: the record carries the settings key instead of the entry's name
FableRecordByKey(t) ==
    [model |-> threads[t].model_name,
     prompt |-> threads[t].prompt,
     fable |-> fable[t]]

\* lines 331-335: the record appended to the shared list.
FableRecord(t) ==
    [model |-> ModelName(ModelConfig(t).key),
     prompt |-> threads[t].prompt,
     fable |-> fable[t]]

\* lines 331-335, inside the with block; model_config['name'] raises KeyError
\* when the entry has no name, and the with block then releases the lock.
AppendFable(t) ==
    /\ tpc[t] = "append"
    /\ IF ModelConfig(t).has_name
       THEN /\ all_fables' = Append(all_fables, FableRecord(t))
            /\ tpc' = [tpc EXCEPT ![t] = "release"]
            /\ UNCHANGED <<lock, log>>
       ELSE /\ lock' = 0
            /\ tpc' = [tpc EXCEPT ![t] = "done"]
            /\ log' = log \cup {<<"thread_error", t>>}
            /\ UNCHANGED all_fables
    /\ UNCHANGED <<run_vars, combinator_vars, client_vars, main_cfg_vars, mainpc, exit_code, mi, pi, ji, threads, fable, wi,
                   output>>

\* the end of the with block (release), then line 336.
Release(t) ==
    /\ tpc[t] = "release"
    /\ lock' = 0
    /\ tpc' = [tpc EXCEPT ![t] = "done"]
    /\ log' = log \cup {<<"generated", t>>}
    /\ UNCHANGED <<run_vars, combinator_vars, client_vars, main_cfg_vars, mainpc, exit_code, mi, pi, ji, threads, fable,
                   all_fables, wi, output>>

WorkerStep(t) ==
    /\ t \in DOMAIN threads
    /\ (Generate(t) \/ Acquire(t) \/ AppendFable(t) \/ Release(t))

Worker == \E t \in 1..MaxThreads : WorkerStep(t)

Main ==
    \/ LoadSettings
    \/ CheckAvailable
    \/ SelectModels
    \/ ReadPrompts
    \/ NextModel
    \/ StartThread
    \/ DispatchDone
    \/ Join
    \/ EnterWrite
    \/ WriteRecord
    \/ Finish

(***************************************************************************)
(* generate_prompts: the prompt combinator.                                *)
(***************************************************************************)
\* the six feature lists, in the order of the tuple of lines 133-140
Dims == <<"characters", "traits", "settings", "conflicts", "resolutions", "morals">>

DimSet == Range(Dims)

\* the context key of each dimension (lines 146-153 and 165-172)
ContextKey(d) ==
    CASE d = "characters" -> "character"
      [] d = "traits" -> "trait"
      [] d = "settings" -> "setting"
      [] d = "conflicts" -> "conflict"
      [] d = "resolutions" -> "resolution"
      [] d = "morals" -> "moral"

\* The values a feature list is drawn from; the first is the list's default.
Vocabulary(d) ==
    CASE d = "characters" -> <<"Fox", "Rabbit">>
      [] d = "traits" -> <<"Brave", "Greedy">>
      [] d = "settings" -> <<"Forest", "River">>
      [] d = "conflicts" -> <<"Hunger", "Rivalry">>
      [] d = "resolutions" -> <<"Shared", "Punished">>
      [] d = "morals" -> <<"Kindness wins", "Hard work pays off">>

FeatureLists(d) == SeqsUpTo(Range(Vocabulary(d)), MaxFeatLen) \ {<<>>}

\* The feature sets of the model: two dimensions hold any lists (repeated values
\* included) whose lengths multiply to at most MaxSpace, the others one value.
FeaturesWith(d1, l1, d2, l2) ==
    [d \in DimSet |-> IF d = d1 THEN l1 ELSE IF d = d2 THEN l2 ELSE <<Vocabulary(d)[1]>>]

FeatureSets ==
    UNION {UNION {
        {FeaturesWith(dd[1], l1, dd[2], l2) :
            l2 \in {l \in FeatureLists(dd[2]) : Len(l1) * Len(l) <= MaxSpace}} :
        l1 \in FeatureLists(dd[1])} :
      dd \in {q \in DimSet \X DimSet : q[1] # q[2]}}

\* A compiled template: literal text and {{placeholders}}.
Lit(text) == [is_var |-> FALSE, text |-> text]

Var(name) == [is_var |-> TRUE, text |-> name]

\* config['generator']['prompt']['fable'], compiled.
FableTemplates ==
    {<<Lit("A "), Var("trait"), Lit(" "), Var("character"), Lit(" in the "),
       Var("setting"), Lit(" faces "), Var("conflict"), Lit("; "), Var("resolution"),
       Lit(". Moral: "), Var("moral")>>}

\* generator_template(context): each placeholder replaced by the context's value
\* (nothing when the context lacks the key).
RECURSIVE Render(_, _)
Render(template, context) ==
    IF template = <<>> THEN ""
    ELSE LET part == Head(template)
             text == IF ~part.is_var THEN part.text
                     ELSE IF part.text \in DOMAIN context THEN context[part.text]
                     ELSE ""
         IN  text \o Render(Tail(template), context)

\* lines 145-153 and 165-172: the context built from a tuple.
Context(tuple) ==
    [key \in {ContextKey(d) : d \in DimSet} |->
        LET i == CHOOSE j \in DOMAIN Dims : ContextKey(Dims[j]) = key IN tuple[i]]

InitCombinator ==
    /\ features \in FeatureSets
    /\ generator_template \in FableTemplates
    /\ count \in 0..MaxCount
    /\ randomize \in BOOLEAN
    /\ ppc = "loop"
    /\ prompts = <<>>
    /\ used_combinations = {}
    /\ combination = <<>>
    /\ accepted = <<>>
    /\ IdleDispatch
    /\ hf_token_set = TRUE
    /\ IdleClient
    /\ IdleRun

\* line 130: the loop condition.
LoopContinues == Len(prompts) < count

\* mutant: every draw takes the first value of each list
DrawnCombinationFirst(position) == [i \in DOMAIN Dims |-> features[Dims[i]][1]]

\* lines 133-140: sample(list, 1)[0] picks the value at a random position.
DrawnCombination(position) == [i \in DOMAIN Dims |-> features[Dims[i]][position[i]]]

\* the positions the six calls of sample can pick
Positions ==
    (DOMAIN features["characters"]) \X (DOMAIN features["traits"])
        \X (DOMAIN features["settings"]) \X (DOMAIN features["conflicts"])
        \X (DOMAIN features["resolutions"]) \X (DOMAIN features["morals"])

\* mutant: the membership test is lost
NeverUsedBefore(c) == FALSE

\* line 143: combination not in used_combinations, negated.
UsedBefore(c) == c \in used_combinations

\* lines 131-154: an iteration in randomized mode, with the draw at `position`.
RandomDraw(position) ==
    /\ ppc = "loop"
    /\ LoopContinues
    /\ randomize
    /\ combination' = DrawnCombination(position)
    /\ IF ~UsedBefore(combination')
       THEN /\ used_combinations' = used_combinations \cup {combination'}
            /\ prompts' = Append(prompts, Render(generator_template, Context(combination')))
            /\ accepted' = Append(accepted, combination')
       ELSE UNCHANGED <<used_combinations, prompts, accepted>>
    /\ UNCHANGED <<features, generator_template, count, randomize, ppc>>
    /\ UNCHANGED <<dispatch_vars, client_vars, run_vars>>

RandomIteration == ppc = "loop" /\ \E position \in Positions : RandomDraw(position)

\* an iteration whose draw is a tuple not accepted before
FreshDraw ==
    ppc = "loop" /\ \E position \in Positions : RandomDraw(position) /\ ~UsedBefore(combination')

\* mutant: the index is one too far
SequentialCombinationOffByOne(idx) ==
    [i \in DOMAIN Dims |-> features[Dims[i]][((idx + 1) % Len(features[Dims[i]])) + 1]]

\* lines 157-163: the tuple of index idx, each list indexed modulo its own length.
SequentialCombination(idx) ==
    [i \in DOMAIN Dims |-> features[Dims[i]][(idx % Len(features[Dims[i]])) + 1]]

\* lines 156-173: an iteration in sequential mode.
SequentialIteration ==
    /\ ppc = "loop"
    /\ LoopContinues
    /\ ~randomize
    /\ LET idx == Len(prompts)
       IN  /\ combination' = SequentialCombination(idx)
           /\ prompts' = Append(prompts, Render(generator_template, Context(combination')))
           /\ accepted' = Append(accepted, combination')
    /\ UNCHANGED <<features, generator_template, count, randomize, ppc, used_combinations>>
    /\ UNCHANGED <<dispatch_vars, client_vars, run_vars>>

\* line 175: the loop is over and the prompts are returned.
ReturnPrompts ==
    /\ ppc = "loop"
    /\ ~LoopContinues
    /\ ppc' = "returned"
    /\ UNCHANGED <<features, generator_template, count, randomize, prompts,
                   used_combinations, combination, accepted>>
    /\ UNCHANGED <<dispatch_vars, client_vars, run_vars>>

CombinatorNext == RandomIteration \/ SequentialIteration \/ ReturnPrompts

CombinatorSpec == InitCombinator /\ [][CombinatorNext]_vars

\* random.sample draws every position with positive probability: a draw that
\* yields a tuple not accepted before is not passed over forever.
FairCombinatorSpec == CombinatorSpec /\ WF_vars(FreshDraw) /\ WF_vars(ReturnPrompts)

(***************************************************************************)
(* generate_fable, step by step.                                           *)
(***************************************************************************)
\* the delta contents a chunk may carry: None, text, or the empty string
ChunkVocabulary == {None, Delta("Once"), Delta(" upon"), Delta(" a time"), Delta("")}

\* The calls of the model: the request raises, or the stream yields up to
\* MaxChunks chunks and then ends ("ok") or raises ("stream_error").
Responses ==
    {Response(kind, chunks) :
        kind \in EndpointKinds, chunks \in SeqsUpTo(ChunkVocabulary, MaxChunks)}

InitClient ==
    /\ response \in Responses
    /\ hf_token_set \in BOOLEAN
    /\ cpc = "client"
    /\ ci = 0
    /\ fable_text = ""
    /\ returned = None
    /\ IdleDispatch
    /\ IdleCombinator
    /\ IdleRun

\* lines 233-236: config('HF_ACCESS_TOKEN') raises when the token is not set.
CreateClient ==
    /\ cpc = "client"
    /\ IF hf_token_set
       THEN cpc' = "request" /\ UNCHANGED returned
       ELSE cpc' = "returned" /\ returned' = Some(ErrorSentinel(TokenMissingMsg).text)
    /\ UNCHANGED <<response, ci, fable_text>>
    /\ UNCHANGED <<dispatch_vars, combinator_vars, run_vars>>

\* lines 238-249: the request is sent; fable_text starts empty.
SendRequest ==
    /\ cpc = "request"
    /\ IF response.kind = "request_error"
       THEN cpc' = "returned" /\ returned' = Some(ErrorSentinel(RequestErrorMsg).text)
       ELSE cpc' = "stream" /\ UNCHANGED returned
    /\ fable_text' = ""
    /\ UNCHANGED <<response, ci>>
    /\ UNCHANGED <<dispatch_vars, combinator_vars, run_vars>>

\* lines 250-252: the next chunk of the stream.
ConsumeChunk ==
    /\ cpc = "stream"
    /\ ci < Len(response.chunks)
    /\ fable_text' = AddDelta(fable_text, response.chunks[ci + 1])
    /\ ci' = ci + 1
    /\ UNCHANGED <<response, cpc, returned>>
    /\ UNCHANGED <<dispatch_vars, combinator_vars, run_vars>>

\* line 253 at the end of the stream, or lines 254-256 when the stream raises.
EndOfStream ==
    /\ cpc = "stream"
    /\ ci = Len(response.chunks)
    /\ cpc' = "returned"
    /\ returned' = IF response.kind = "stream_error"
                   THEN Some(ErrorSentinel(StreamErrorMsg).text)
                   ELSE Some(fable_text)
    /\ UNCHANGED <<response, ci, fable_text>>
    /\ UNCHANGED <<dispatch_vars, combinator_vars, run_vars>>

ClientNext == CreateClient \/ SendRequest \/ ConsumeChunk \/ EndOfStream

ClientSpec == InitClient /\ [][ClientNext]_vars

(***************************************************************************)
(* main, --generate-prompts: load_settings, generate_prompts, write_output, *)
(* and the file written read back by --generate-fables.                    *)
(***************************************************************************)
\* line 190: the choices of --output.
OutputFormats == {"text", "jsonl", "csv"}

\* config['generator']['prompt']['system'], compiled.
SystemTemplates ==
    {<<Lit("You are a fabulist")>>, <<Lit("Write a fable for "), Var("audience")>>}

\* The feature lists of the settings file in main's runs.
SettingsFeatures ==
    {FeaturesWith("characters", l, "traits", <<"Brave">>) : l \in FeatureLists("characters")}

\* line 128: system_template({}), the template rendered with an empty context.
RenderedSystemPrompt == Render(system_template, [key \in {} |-> ""])

\* A JSON value of a prompt file's line: one object, or a list of objects.
AsObject(p) == [is_list |-> FALSE, items |-> <<p>>]

AsList(items) == [is_list |-> TRUE, items |-> items]

JsonString(text) == "\"" \o text \o "\""

\* json.dump of a dict with the keys prompt_type and content (default separators).
JsonObject(p) ==
    "{\"prompt_type\": " \o JsonString(p.prompt_type)
        \o ", \"content\": " \o JsonString(p.content) \o "}"

RECURSIVE JsonItems(_)
JsonItems(items) ==
    IF items = <<>> THEN ""
    ELSE IF Tail(items) = <<>> THEN JsonObject(Head(items))
    ELSE JsonObject(Head(items)) \o ", " \o JsonItems(Tail(items))

\* json.dump: a list is written in brackets, an object in braces.
JsonDump(value) ==
    IF value.is_list THEN "[" \o JsonItems(value.items) \o "]"
    ELSE JsonObject(value.items[1])

\* The values a line can parse to, with contents among `contents`.
JsonValues(contents) ==
    LET objects == {PromptLine(type, content) :
                       type \in {"system_prompt", "generator_prompt"}, content \in contents}
    IN  {AsObject(p) : p \in objects} \cup {AsList(items) : items \in SeqsUpTo(objects, 2)}

\* json.loads (line 213): the value whose text the line is; ok is FALSE when the
\* line is not JSON (JSONDecodeError).
JsonLoads(text, contents) ==
    LET parses == {v \in JsonValues(contents) : JsonDump(v) = text}
    IN  IF parses = {} THEN [ok |-> FALSE, value |-> AsList(<<>>)]
        ELSE [ok |-> TRUE, value |-> CHOOSE v \in parses : TRUE]

\* lines 291-304: one line per template, the dump of a list of two objects.
JsonlLines(system_text, templates) ==
    [i \in DOMAIN templates |->
        JsonDump(AsList(<<PromptLine("system_prompt", system_text),
                          PromptLine("generator_prompt", templates[i])>>))]

\* lines 305-309: the text listing; print("\n...") gives an empty line first.
RECURSIVE TextListing(_, _)
TextListing(templates, i) ==
    IF i > Len(templates) THEN <<>>
    ELSE <<"", ToString(i) \o ". " \o templates[i]>> \o TextListing(templates, i + 1)

TextLines(system_text, templates) ==
    <<"System prompt: " \o system_text, "", "Fable templates:">>
        \o TextListing(templates, 1)

\* write_output (lines 283-309): the lines written to stdout.
WrittenLines(system_text, templates, format) ==
    IF format = "jsonl" THEN JsonlLines(system_text, templates)
    ELSE TextLines(system_text, templates)

\* the dispatcher's variables other than main's position and outcome
dispatch_work_vars ==
    <<hf_token_set, available_models, models_to_use, system_prompt, fable_prompts,
      mi, pi, ji, threads, tpc, fable, lock, all_fables, wi, output>>

\* The state when the process starts: nothing parsed, nothing run.
InitMain ==
    /\ mainpc = "parse_args"
    /\ exit_code = -1
    /\ hf_token_set \in BOOLEAN
    /\ available_models = << >>
    /\ models_to_use = <<>>
    /\ system_prompt = None
    /\ fable_prompts = <<>>
    /\ mi = 0
    /\ pi = 0
    /\ ji = 0
    /\ threads = <<>>
    /\ tpc = <<>>
    /\ fable = <<>>
    /\ lock = 0
    /\ all_fables = <<>>
    /\ wi = 0
    /\ output = <<>>
    /\ log = {}
    /\ IdleCombinator
    /\ IdleClient
    /\ action = "none"
    /\ output_format = "text"
    /\ system_template = <<>>
    /\ stdout = <<>>
    /\ openai_token_set \in BOOLEAN
    /\ fables_to_evaluate = <<>>
    /\ ei = 0
    /\ evaluations = <<>>

\* lines 384, 392, 441, 454: the branch main takes, the first flag given winning.
Branch(generate_prompts, generate_fables, evaluate) ==
    IF generate_prompts THEN "generate_prompts"
    ELSE IF generate_fables THEN "generate_fables"
    ELSE IF evaluate THEN "evaluate"
    ELSE "none"

\* where each branch starts
BranchStart(branch) ==
    CASE branch = "generate_prompts" -> "generate_prompts"
      [] branch = "generate_fables" -> "load_settings"
      [] branch = "evaluate" -> "read_fables"
      [] branch = "none" -> "no_action"

\* line 379, parse_args (lines 177-198): argparse exits with code 2 on a usage
\* error, before the try; otherwise the flags decide the branch.  count,
\* randomize and output are used by the --generate-prompts branch only.
ParseArgs ==
    /\ mainpc = "parse_args"
    /\ \/ /\ mainpc' = "usage"
          /\ exit_code' = 2
          /\ UNCHANGED <<action, output_format, count, randomize>>
       \/ \E generate_prompts \in BOOLEAN, generate_fables \in BOOLEAN, evaluate \in BOOLEAN :
            /\ action' = Branch(generate_prompts, generate_fables, evaluate)
            /\ mainpc' = BranchStart(action')
            /\ IF generate_prompts
               THEN /\ output_format' \in OutputFormats
                    /\ count' \in 0..MaxCount
                    /\ randomize' \in BOOLEAN
               ELSE UNCHANGED <<output_format, count, randomize>>
            /\ UNCHANGED exit_code
    /\ UNCHANGED <<log, dispatch_work_vars, client_vars, features, generator_template, ppc,
                   prompts, used_combinations, combination, accepted, system_template,
                   stdout, openai_token_set, fables_to_evaluate, ei, evaluations>>

\* lines 454-457: no action flag; sys.exit(1) raises SystemExit, which the
\* handlers of lines 459-464 do not catch.
NoActionGiven ==
    /\ mainpc = "no_action"
    /\ mainpc' = "exit"
    /\ exit_code' = 1
    /\ log' = log \cup {<<"no_action", 0>>}
    /\ UNCHANGED <<dispatch_work_vars, combinator_vars, client_vars, run_vars>>

\* line 385 and lines 120-128: load_settings, then generate_prompts reads the
\* features and compiles the templates; a settings file without one of the keys
\* raises KeyError.
LoadSettingsForPrompts ==
    /\ mainpc = "generate_prompts"
    /\ ppc = "idle"
    /\ \/ /\ Abort("config_error")      \* file missing or invalid YAML
          /\ UNCHANGED <<features, generator_template, system_template, ppc>>
       \/ /\ Abort("unexpected_error")  \* KeyError
          /\ UNCHANGED <<features, generator_template, system_template, ppc>>
       \/ /\ features' \in SettingsFeatures
          /\ generator_template' \in FableTemplates
          /\ system_template' \in SystemTemplates
          /\ ppc' = "loop"
          /\ UNCHANGED <<mainpc, exit_code, log>>
    /\ UNCHANGED <<dispatch_work_vars, client_vars, count, randomize, prompts,
                   used_combinations, combination, accepted, action, output_format,
                   stdout, openai_token_set, fables_to_evaluate, ei, evaluations>>

\* line 391: write_output on what generate_prompts returned; main is over.
WriteOutput ==
    /\ mainpc = "generate_prompts"
    /\ ppc = "returned"
    /\ stdout' = WrittenLines(RenderedSystemPrompt, prompts, output_format)
    /\ mainpc' = "done"
    /\ exit_code' = 0
    /\ UNCHANGED <<log, dispatch_work_vars, combinator_vars, client_vars, action,
                   output_format, system_template, openai_token_set, fables_to_evaluate,
                   ei, evaluations>>

\* line 212: blank lines are skipped.
NonBlank(line) == line # ""

\* A second run, --generate-fables on the file the first run wrote: read_prompts
\* (lines 209-220) parses every non-blank line, then lines 410-414.  Subscripting
\* a list with 'prompt_type' raises TypeError.
ReadWrittenFile ==
    /\ mainpc = "done"
    /\ action = "generate_prompts"
    /\ action' = "generate_fables"
    /\ LET contents == {RenderedSystemPrompt} \cup Range(prompts)
           nonblank == SelectSeq(stdout, NonBlank)
           parsed == [i \in DOMAIN nonblank |-> JsonLoads(nonblank[i], contents)]
       IN  IF \E i \in DOMAIN parsed : ~parsed[i].ok
           THEN Abort("config_error") /\ UNCHANGED <<system_prompt, fable_prompts>>
           ELSE IF \E i \in DOMAIN parsed : parsed[i].value.is_list
           THEN Abort("unexpected_error") /\ UNCHANGED <<system_prompt, fable_prompts>>
           ELSE LET lines == [i \in DOMAIN parsed |-> parsed[i].value.items[1]]
                IN  IF FirstSystemPrompt(lines).is_none
                       \/ FirstSystemPrompt(lines).content = ""
                    THEN Abort("config_error") /\ UNCHANGED <<system_prompt, fable_prompts>>
                    ELSE /\ system_prompt' = FirstSystemPrompt(lines)
                         /\ fable_prompts' = GeneratorPrompts(lines)
                         /\ mainpc' = "dispatch"
                         /\ exit_code' = -1
                         /\ UNCHANGED log
    /\ UNCHANGED <<hf_token_set, available_models, models_to_use, mi, pi, ji, threads, tpc,
                   fable, lock, all_fables, wi, output, combinator_vars, client_vars,
                   output_format, system_template, stdout, openai_token_set,
                   fables_to_evaluate, ei, evaluations>>

PromptFileNext ==
    ParseArgs \/ LoadSettingsForPrompts \/ CombinatorNext \/ WriteOutput \/ ReadWrittenFile

\* --generate-prompts, then --generate-fables on its output.
PromptFileSpec == InitMain /\ [][PromptFileNext]_vars

(***************************************************************************)
(* main, --evaluate: read the fables, evaluate each.                       *)
(***************************************************************************)
EvalErrorPrefix == "Error evaluating fable: "

OpenAITokenMissingMsg == "OPENAI_TOKEN not found"

\* A parsed line of the file: an object with the key 'fable', an object without
\* it, or a value that is no container (a number).
FableEntry(text) == [kind |-> "fable", fable |-> text]

OtherEntry == [kind |-> "object", fable |-> ""]

NumberEntry == [kind |-> "number", fable |-> ""]

FableFiles ==
    SeqsUpTo({FableEntry("Once upon a time"), FableEntry(ErrorPrefix \o RequestErrorMsg),
              OtherEntry, NumberEntry}, MaxFables)

\* evaluate_fable (lines 340-375): the grade, or the sentinel when the token is
\* not set (line 350) or the request raises; nothing is raised outward.
EvaluateFable(token_set, kind) ==
    IF ~token_set THEN EvalErrorPrefix \o OpenAITokenMissingMsg
    ELSE IF kind = "request_error" THEN EvalErrorPrefix \o RequestErrorMsg
    ELSE "7"

\* line 443: list(read_prompts(args.evaluate)).
ReadFables ==
    /\ mainpc = "read_fables"
    /\ \/ /\ Abort("config_error")      \* file missing or invalid JSONL
          /\ UNCHANGED fables_to_evaluate
       \/ /\ fables_to_evaluate' \in FableFiles
          /\ mainpc' = "evaluate"
          /\ UNCHANGED <<exit_code, log>>
    /\ UNCHANGED <<dispatch_work_vars, combinator_vars, client_vars, action, output_format,
                   system_template, stdout, openai_token_set, ei, evaluations>>

\* lines 446-453: one entry.  `'fable' in fable_data` raises TypeError on a
\* number; an entry without the key is skipped with a warning.
EvaluateEntry ==
    /\ mainpc = "evaluate"
    /\ ei < Len(fables_to_evaluate)
    /\ LET fable_data == fables_to_evaluate[ei + 1]
       IN  IF fable_data.kind = "number"
           THEN Abort("unexpected_error") /\ UNCHANGED <<ei, evaluations>>
           ELSE /\ ei' = ei + 1
                /\ IF fable_data.kind = "fable"
                   THEN \E kind \in {"ok", "request_error"} :
                          LET evaluation == EvaluateFable(openai_token_set, kind)
                          IN  /\ evaluations' = Append(evaluations, evaluation)
                              /\ log' = IF IsPrefix(EvalErrorPrefix, evaluation)
                                        THEN log \cup {<<"evaluation_error", ei + 1>>}
                                        ELSE log \cup {<<"evaluated", ei + 1>>}
                   ELSE /\ log' = log \cup {<<"skipped", ei + 1>>}
                        /\ UNCHANGED evaluations
                /\ UNCHANGED <<mainpc, exit_code>>
    /\ UNCHANGED <<dispatch_work_vars, combinator_vars, client_vars, action, output_format,
                   system_template, stdout, openai_token_set, fables_to_evaluate>>

\* the loop of line 446 is over: main returns.
EvaluateDone ==
    /\ mainpc = "evaluate"
    /\ ei >= Len(fables_to_evaluate)
    /\ mainpc' = "done"
    /\ exit_code' = 0
    /\ UNCHANGED <<log, dispatch_work_vars, combinator_vars, client_vars, run_vars>>

(***************************************************************************)
(* The whole of main: the command line, then the branch it selects.        *)
(***************************************************************************)
GeneratePromptsBranch == LoadSettingsForPrompts \/ CombinatorNext \/ WriteOutput

EvaluateBranch == ReadFables \/ EvaluateEntry \/ EvaluateDone

MainNext ==
    ParseArgs \/ NoActionGiven \/ GeneratePromptsBranch \/ Main \/ Worker \/ EvaluateBranch

MainSpec == InitMain /\ [][MainNext]_vars

Init == InitDispatch

Next == Main \/ Worker

Spec == Init /\ [][Next]_vars

\* The operating system schedules every runnable thread: main and each worker
\* take their next step when it stays possible.
FairSpec == Spec /\ WF_vars(Main) /\ \A t \in 1..MaxThreads : WF_vars(WorkerStep(t))

(***************************************************************************)
(* Properties of the dispatcher.                                           *)
(***************************************************************************)
JoinsReturned == mainpc \in {"write", "done"} \/ (mainpc = "join" /\ ji = Len(threads))

\* every selected entry has 'name' and 'base_url'
WellFormedModels ==
    \A k \in Range(models_to_use) :
        available_models[k].has_name /\ available_models[k].has_base_url

LaunchedPairs == (DOMAIN models_to_use) \X (DOMAIN fable_prompts)

RecordsOf(name, prompt) ==
    {i \in DOMAIN all_fables : all_fables[i].model = name /\ all_fables[i].prompt = prompt}

PairsOf(name, prompt) ==
    {q \in LaunchedPairs : /\ ModelName(available_models[models_to_use[q[1]]].key) = name
                           /\ fable_prompts[q[2]] = prompt}

\* C1: once all joins have returned, all_fables holds exactly |M| x |P| records,
\* one per launched (model, prompt) pair, each with that pair's model name and
\* prompt, whatever the order in which the workers ran and finished.
C1_OneRecordPerPair ==
    (JoinsReturned /\ WellFormedModels) =>
        /\ Len(all_fables) = Len(models_to_use) * Len(fable_prompts)
        /\ \A k \in ModelKeys, j \in 1..MaxPrompts :
              Cardinality(RecordsOf(ModelName(k), PromptText(j)))
                  = Cardinality(PairsOf(ModelName(k), PromptText(j)))

\* two models x two prompts, finished out of launch order
C1_Witness ==
    /\ mainpc = "done"
    /\ WellFormedModels
    /\ Len(models_to_use) = 2 /\ Len(fable_prompts) = 2
    /\ models_to_use[1] # models_to_use[2]
    /\ Len(all_fables) = 4
    /\ all_fables[1].model = ModelName(models_to_use[2])
    /\ all_fables[1].prompt = fable_prompts[2]
    /\ all_fables[4].model = ModelName(models_to_use[1])

\* C2: write_fables is entered only after every started thread has finished, and
\* no record is appended to all_fables once write_fables has begun.
C2_WriteAfterJoin ==
    /\ [](mainpc \in {"write", "done"} =>
            /\ Len(threads) = Len(models_to_use) * Len(fable_prompts)
            /\ \A t \in DOMAIN threads : tpc[t] = "done")
    /\ [][(mainpc \in {"write", "done"}) => (all_fables' = all_fables)]_vars

C2_Witness ==
    /\ mainpc = "write"
    /\ wi = 1
    /\ Len(threads) = 4
    /\ Len(all_fables) >= 2

InCriticalSection(t) == tpc[t] \in {"append", "release"}

\* C3: at most one worker is inside the append critical section, it holds the
\* lock, and all_fables changes only by an append of the thread holding the lock.
C3_AppendUnderLock ==
    /\ [](/\ Cardinality({t \in DOMAIN threads : InCriticalSection(t)}) <= 1
          /\ \A t \in DOMAIN threads : InCriticalSection(t) => lock = t)
    /\ [][all_fables' # all_fables =>
            \E t \in DOMAIN threads :
                /\ lock = t
                /\ tpc[t] = "append"
                /\ all_fables' = Append(all_fables, FableRecord(t))]_vars

\* a worker holds the lock after its append while another waits for it
C3_Witness ==
    \E t, u \in DOMAIN threads :
        /\ tpc[t] = "release"
        /\ lock = t
        /\ tpc[u] = "acquire"

\* the call made for a selected model raises inside generate_fable
CallRaises(k) == ~hf_token_set \/ available_models[k].endpoint # "ok"

KeyOfName(name) == CHOOSE k \in ModelKeys : ModelName(k) = name

\* C4: with well-formed entries the dispatcher completes whatever the endpoints
\* do: every worker finishes, write_fables is reached, and there is one record
\* per pair; the record of a call that raised is the error sentinel.  With an
\* endpoint that always raises, that is |M| x |P| sentinel records in every run.
C4_CompletesUnderFailure ==
    (mainpc = "dispatch" /\ WellFormedModels) ~>
        /\ mainpc = "done"
        /\ \A t \in DOMAIN threads : tpc[t] = "done"
        /\ Len(all_fables) = Len(models_to_use) * Len(fable_prompts)
        /\ output = all_fables
        /\ \A i \in DOMAIN all_fables :
              CallRaises(KeyOfName(all_fables[i].model))
                  <=> IsPrefix(ErrorPrefix, all_fables[i].fable)

C4_Witness ==
    /\ mainpc = "done"
    /\ \A k \in Range(models_to_use) : CallRaises(k)
    /\ Cardinality(Range(models_to_use)) = 2
    /\ Len(fable_prompts) = 2
    /\ Len(all_fables) = 4
    /\ \A i \in DOMAIN all_fables : IsPrefix(ErrorPrefix, all_fables[i].fable)

TaskFailed(t) == <<"api_error", t>> \in log \/ <<"thread_error", t>> \in log

TaskContributed(t) == <<"generated", t>> \in log

\* C5: all failed tasks have the same outcome for the result collection:
\* all of them contribute an error-sentinel record, or none of them does.
C5_ConsistentFailurePolicy ==
    \A t, u \in DOMAIN threads :
        (tpc[t] = "done" /\ tpc[u] = "done" /\ TaskFailed(t) /\ TaskFailed(u)) =>
            (TaskContributed(t) <=> TaskContributed(u))

\* C10: a configuration error aborts before any generation work: a run that
\* ends in the error exit (exit code 1) has started no worker thread and so
\* has issued no generation request.
C10_ConfigErrorAbortsBeforeWork ==
    mainpc = "exit" => (exit_code = 1 /\ threads = <<>>)

\* C11: a missing generation token is fatal at startup: with HF_ACCESS_TOKEN
\* not set no prompt is dispatched (no worker thread is started) and no output
\* record is produced.
C11_MissingTokenFatalAtStartup ==
    ~hf_token_set => (threads = <<>> /\ all_fables = <<>> /\ output = <<>>)

(***************************************************************************)
(* Properties of the prompt combinator.                                    *)
(***************************************************************************)
Nth(list, i) == list[(i % Len(list)) + 1]

\* the context of index i, each dimension taken at i mod its own length
RoundRobinContext(i) ==
    [character |-> Nth(features["characters"], i),
     trait |-> Nth(features["traits"], i),
     setting |-> Nth(features["settings"], i),
     conflict |-> Nth(features["conflicts"], i),
     resolution |-> Nth(features["resolutions"], i),
     moral |-> Nth(features["morals"], i)]

\* C6: in sequential mode generate_prompts returns exactly count prompts, and
\* the prompt of index i is rendered from features[dim][i mod len(features[dim])]
\* in each of the six dimensions independently.
C6_SequentialRoundRobin ==
    (ppc \in {"loop", "returned"} /\ ~randomize) =>
        /\ Len(prompts) <= count
        /\ ppc = "returned" => Len(prompts) = count
        /\ \A i \in 0..(Len(prompts) - 1) :
              prompts[i + 1] = Render(generator_template, RoundRobinContext(i))

\* characters = [Fox, Rabbit], one value elsewhere, N = 2: Fox then Rabbit
C6_Witness ==
    /\ ppc = "returned"
    /\ ~randomize
    /\ count = 2
    /\ features = FeaturesWith("characters", <<"Fox", "Rabbit">>, "traits", <<"Brave">>)
    /\ accepted = << <<"Fox", "Brave", "Forest", "Hunger", "Shared", "Kindness wins">>,
                     <<"Rabbit", "Brave", "Forest", "Hunger", "Shared", "Kindness wins">> >>
    /\ prompts[2] = "A Brave Rabbit in the Forest faces Hunger; Shared. Moral: Kindness wins"

\* the distinct 6-tuples of the feature space
FeatureSpace ==
    {<<c, t, s, k, r, m>> :
        c \in Range(features["characters"]), t \in Range(features["traits"]),
        s \in Range(features["settings"]), k \in Range(features["conflicts"]),
        r \in Range(features["resolutions"]), m \in Range(features["morals"])}

\* C7: in randomized mode the accepted tuples are pairwise distinct and as many
\* as the prompts and as used_combinations holds; a draw equal to an accepted
\* tuple changes neither prompts nor used_combinations; and with count at most
\* the number of distinct tuples the function returns exactly count prompts.
C7_RandomizedDistinct ==
    /\ []((ppc \in {"loop", "returned"} /\ randomize) =>
            /\ Len(prompts) = Cardinality(used_combinations)
            /\ Len(accepted) = Len(prompts)
            /\ \A i, j \in DOMAIN accepted : i # j => accepted[i] # accepted[j]
            /\ \A i \in DOMAIN accepted :
                  /\ accepted[i] \in used_combinations
                  /\ accepted[i] \in FeatureSpace
                  /\ prompts[i] = Render(generator_template, Context(accepted[i]))
            /\ (ppc = "returned" /\ count <= Cardinality(FeatureSpace)) =>
                  Len(prompts) = count)
    /\ [][(randomize /\ combination' \in used_combinations) =>
            (prompts' = prompts /\ used_combinations' = used_combinations)]_vars

\* a draw repeating the first accepted tuple was rejected
C7_Witness ==
    /\ ppc = "loop"
    /\ randomize
    /\ count = 3
    /\ Cardinality(FeatureSpace) = 4
    /\ Len(prompts) = 2
    /\ combination = accepted[1]

\* C8: in randomized mode with count above the number of distinct tuples the
\* loop never ends: the prompts stay fewer than count, and once every distinct
\* tuple is accepted no draw changes anything; with count at most the number
\* of distinct tuples the loop ends under fair draws.
C8_ExhaustionNeverTerminates ==
    /\ []((ppc \in {"loop", "returned"} /\ randomize /\ count > Cardinality(FeatureSpace)) =>
            (ppc = "loop" /\ Len(prompts) < count))
    /\ [][(ppc = "loop" /\ randomize /\ used_combinations = FeatureSpace
              /\ count > Cardinality(FeatureSpace)) =>
            (ppc' = "loop" /\ prompts' = prompts
              /\ used_combinations' = used_combinations)]_vars
    /\ ((ppc = "loop" /\ randomize /\ count <= Cardinality(FeatureSpace))
            ~> (ppc = "returned" /\ Len(prompts) = count))

\* every distinct tuple accepted, and more prompts asked for
C8_Witness ==
    /\ ppc = "loop"
    /\ randomize
    /\ Cardinality(FeatureSpace) = 2
    /\ used_combinations = FeatureSpace
    /\ count = 3
    /\ Len(prompts) = 2
    /\ combination = accepted[1]

(***************************************************************************)
(* Properties of the prompt file.                                          *)
(***************************************************************************)
\* C12: feeding the file written by --generate-prompts --output jsonl with
\* count >= 1 to --generate-fables yields, via read_prompts and main, the system
\* prompt and the list of generator prompts that were written.
C12_PromptFileRoundTrip ==
    (action = "generate_fables" /\ output_format = "jsonl" /\ count >= 1)
        => /\ mainpc = "dispatch"
           /\ system_prompt = Some(RenderedSystemPrompt)
           /\ fable_prompts = prompts

(***************************************************************************)
(* Properties of the exit code.                                            *)
(***************************************************************************)
\* main's error exits: a configuration error, an unhandled exception, no action
MainErrors == {<<"config_error", 0>>, <<"unexpected_error", 0>>, <<"no_action", 0>>}

\* a unit of work that failed: a worker task, or the evaluation of an entry
UnitFailed(t) == TaskFailed(t) \/ <<"evaluation_error", t>> \in log

\* C13: the exit code is 0 exactly when the selected action has run to
\* completion, and 1 exactly when main ended on a configuration error, an
\* unhandled exception or the absence of an action flag; a failed worker task
\* or evaluation leaves the exit code as it is, so a run whose units all failed
\* still exits 0.
C13_ExitCode ==
    /\ [](exit_code = 0 <=> mainpc = "done")
    /\ [](exit_code = 1 <=> mainpc = "exit")
    /\ [](mainpc = "exit" <=> log \cap MainErrors # {})
    /\ [][(\E t \in 1..MaxThreads : UnitFailed(t)' /\ ~UnitFailed(t))
            => (exit_code' = exit_code)]_vars

\* a --generate-fables run of two tasks that both failed, ended with exit code 0
C13_Witness ==
    /\ action = "generate_fables"
    /\ mainpc = "done"
    /\ exit_code = 0
    /\ Len(threads) = 2
    /\ \A t \in DOMAIN threads : TaskFailed(t)

(***************************************************************************)
(* Properties of the streaming client.                                     *)
(***************************************************************************)
\* the contents of the chunks that carry one, in arrival order
RECURSIVE Contents(_)
Contents(chunks) ==
    IF chunks = <<>> THEN <<>>
    ELSE IF Head(chunks) = None THEN Contents(Tail(chunks))
    ELSE <<Head(chunks).content>> \o Contents(Tail(chunks))

RECURSIVE Concatenation(_)
Concatenation(strings) ==
    IF strings = <<>> THEN ""
    ELSE Concatenation(SubSeq(strings, 1, Len(strings) - 1)) \o strings[Len(strings)]

NoError == hf_token_set /\ response.kind = "ok"

\* C9: for a stream that raises no error generate_fable returns the
\* concatenation, in arrival order, of the content deltas that are not None;
\* the text accumulated after each chunk is that of the chunks consumed and a
\* prefix of the final result.
C9_ConcatenatesDeltas ==
    (cpc \in {"stream", "returned"} /\ NoError) =>
        /\ fable_text = Concatenation(Contents(SubSeq(response.chunks, 1, ci)))
        /\ IsPrefix(fable_text, Concatenation(Contents(response.chunks)))
        /\ cpc = "returned" =>
              returned = Some(Concatenation(Contents(response.chunks)))

\* deltas ['Once', ' upon', ' a time'] give 'Once upon a time'
C9_Witness ==
    /\ cpc = "returned"
    /\ NoError
    /\ response.chunks = <<Delta("Once"), Delta(" upon"), Delta(" a time")>>
    /\ returned = Some("Once upon a time")

\* generate_fable taken as one step in the dispatcher is the stepwise function
ClientAgreesWithGenerateFable ==
    cpc = "returned" => returned = Some(GenerateFable(hf_token_set, response).text)

====
